---- MODULE Spec2Model ----
(***************************************************************************)
(* A model of train_sklearn_model.py: the dataset assembler                *)
(* (SklearnPlantDiseaseTrainer.prepare_dataset), the run of main() through *)
(* train_model and save_model, and the two feature extractors (the         *)
(* training-time extract_features_worker and the extract_features of the   *)
(* generated predict.py).                                                  *)
(*                                                                         *)
(* Spec     : one run of main() over a small file system.                  *)
(* SpecFeat : the two feature extractors applied to one image.             *)
(*                                                                         *)
(* Names (class directories, file names) are sequences of character codes, *)
(* so that sorted(), str.lower() and str.endswith() are computed and not   *)
(* assumed.                                                                *)
(***************************************************************************)
EXTENDS Integers, Sequences, FiniteSets, TLC

VARIABLES
    \* ---- the environment of a run (never written by the program)
    dataset_paths,    \* the list handed to prepare_dataset
    fs,               \* the file system: which roots exist, and their entries
    \* ---- prepare_dataset
    pc,               \* position of the run
    vi,               \* vocabulary pass: index of the root being listed
    all_classes,      \* the set all_classes
    class_names,      \* sorted(list(all_classes))
    class_to_idx,     \* the dict class_to_idx, as a set of <<name, index>>
    si,               \* sampling pass: index of the root being scanned
    all_image_tasks,  \* list of (img_path, class_idx)
    outcome,          \* pool: task index -> what its call returned
    results,          \* the list Parallel(...) returned
    X,                \* features of the assembled dataset
    y,                \* labels of the assembled dataset
    \* ---- main / train_model / save_model
    trainCalls,       \* the arguments of each train_model invocation
    model,            \* the fitted ensemble (the vocabulary it was trained on)
    outdir,           \* the artifacts present in OUTPUT_DIR
    \* ---- the feature extractors (SpecFeat)
    fpc,              \* position of the extraction experiment
    image,            \* the image file: a grid of RGB pixels, or undecodable
    imgSize,          \* the value of the module-level IMG_SIZE while training
    trainFeat,        \* what extract_features_worker returned
    predFeat          \* what predict.py's extract_features returned

runVars == <<dataset_paths, fs, pc, vi, all_classes, class_names, class_to_idx,
             si, all_image_tasks, outcome,
             results, X, y, trainCalls, model, outdir>>
featVars == <<fpc, image, imgSize, trainFeat, predFeat>>
vars == <<runVars, featVars>>

(***************************************************************************)
(* Bounds of the model.                                                    *)
(***************************************************************************)
\* SAMPLES_PER_CLASS is 1000 in the source (line 24); the model runs the same
\* code with a small cap so that a directory can hold more files than the cap.
SAMPLES_PER_CLASS == 1
\* A class directory holds the first n names of ImagePool, n <= MaxFiles
\* (and two files that are no images).
MaxFiles == 2
\* The file systems of the model hold at most this many image files in all.
MaxImages == 5
\* N_JOBS = -1 means one worker per CPU core; the model's machine has this many.
NumWorkers == 2
\* IMG_SIZE is tried at 1..MaxImgSize and at its default.
MaxImgSize == 2

(***************************************************************************)
(* Strings as sequences of character codes.                                *)
(***************************************************************************)
\* str.lower() on one ASCII character
LowerChar(c) == IF c >= 65 /\ c <= 90 THEN c + 32 ELSE c

\* str.lower()
Lower(s) == [i \in 1..Len(s) |-> LowerChar(s[i])]

\* str.endswith(suffix)
EndsWith(s, suf) ==
    /\ Len(s) >= Len(suf)
    /\ SubSeq(s, Len(s) - Len(suf) + 1, Len(s)) = suf

RECURSIVE StrLess(_, _)
\* Python's < on str: lexicographic by code point, a proper prefix is smaller
StrLess(a, b) ==
    IF b = <<>> THEN FALSE
    ELSE IF a = <<>> THEN TRUE
    ELSE IF a[1] # b[1] THEN a[1] < b[1]
    ELSE StrLess(Tail(a), Tail(b))

RECURSIVE SortedBySelect(_)
\* the list a set's elements form in increasing order
SortedBySelect(S) ==
    IF S = {} THEN <<>>
    ELSE LET m == CHOOSE x \in S : \A z \in S \ {x} : StrLess(x, z)
         IN  <<m>> \o SortedBySelect(S \ {m})

RECURSIVE InsertionOrder(_)
\* a list of the set's elements in another order (here: decreasing)
InsertionOrder(S) ==
    IF S = {} THEN <<>>
    ELSE LET m == CHOOSE x \in S : \A z \in S \ {x} : StrLess(z, x)
         IN  <<m>> \o InsertionOrder(S \ {m})

\* sorted(list(S)) for a set of str
Sorted(S) == SortedBySelect(S)

\* the elements of a sequence
Range(s) == {s[i] : i \in 1..Len(s)}

\* the sequences that list every element of S exactly once
Perms(S) ==
    {s \in [1..Cardinality(S) -> S] : \A i, j \in 1..Cardinality(S) : s[i] = s[j] => i = j}

\* the sequences of k distinct elements of S
Arrangements(S, k) ==
    {s \in [1..k -> S] : \A i, j \in 1..k : s[i] = s[j] => i = j}

RECURSIVE Flatten(_)
\* the concatenation of a sequence of sequences
Flatten(ss) == IF ss = <<>> THEN <<>> ELSE Head(ss) \o Flatten(Tail(ss))

(***************************************************************************)
(* The file system.                                                        *)
(***************************************************************************)
\* the default dataset_paths: "dataset" and "public/archive (4)/data"
Roots == {"dataset", "archive"}

\* "blight", "healthy"
Blight == <<98, 108, 105, 103, 104, 116>>
Healthy == <<104, 101, 97, 108, 116, 104, 121>>
Classes == {Blight, Healthy}

\* "a.JPG", "notes.txt", "b.png", "c.Jpeg", "djpg"
FileA == <<97, 46, 74, 80, 71>>
FileNotes == <<110, 111, 116, 101, 115, 46, 116, 120, 116>>
FileB == <<98, 46, 112, 110, 103>>
FileC == <<99, 46, 74, 112, 101, 103>>
FileD == <<100, 106, 112, 103>>
ImagePool == <<FileA, FileB, FileC>>

\* An entry of a root under a class name: nothing, a plain file, or a
\* directory holding notes.txt, the first n names of ImagePool, and djpg.
NoEntry == 0 - 2
PlainFile == 0 - 1
Entries == {NoEntry, PlainFile} \cup (0..MaxFiles)

\* os.path.exists(root)
Exists(root) == root \in fs.exists

\* os.path.isdir(os.path.join(root, d))
IsDir(root, d) == fs.entry[<<root, d>>] >= 0

\* The order os.listdir returns entries in is the file system's own and is
\* fixed while the run lasts: in the model's file systems it is DirOrder for
\* a root and the order below for a class directory.
DirOrder == <<Healthy, Blight>>
Present(root, d) == fs.entry[<<root, d>>] # NoEntry

\* os.listdir(root)
ListRoot(root) == SelectSeq(DirOrder, LAMBDA d : Present(root, d))

\* the listing of a class directory that holds n image files
Listing(n) == <<FileNotes>> \o SubSeq(ImagePool, 1, n) \o <<FileD>>

\* os.listdir(class_path)
ListClassDir(root, d) == Listing(fs.entry[<<root, d>>])

\* Image.open(path) succeeds: b.png is the file that does not decode
Decodable(path) == path[3] # FileB

(***************************************************************************)
(* extract_features_worker, seen from prepare_dataset: the features of the *)
(* image at the path, or None.                                             *)
(***************************************************************************)
None == [tag |-> "None", of |-> <<>>]
Raised == [tag |-> "raised", of |-> <<>>]
Features(path) == [tag |-> "features", of |-> path]

\* a worker without the try/except: the error leaves the call
WorkerNoCatch(path) == IF Decodable(path) THEN Features(path) ELSE Raised

\* lines 28-115: any Exception inside the try block becomes None
extract_features_worker(path) ==
    IF Decodable(path) THEN Features(path) ELSE None

(***************************************************************************)
(* prepare_dataset: the vocabulary pass (lines 131-146).                   *)
(***************************************************************************)
\* classes = [d for d in os.listdir(d_path) if os.path.isdir(...)]
ClassDirs(root) == SelectSeq(ListRoot(root), LAMBDA d : IsDir(root, d))

\* one iteration of the first loop: a missing root is skipped with a warning
VocabRoot ==
    /\ pc = "vocab"
    /\ vi <= Len(dataset_paths)
    /\ LET d_path == dataset_paths[vi]
       IN  all_classes' = IF Exists(d_path)
                          THEN all_classes \cup Range(ClassDirs(d_path))
                          ELSE all_classes
    /\ vi' = vi + 1
    /\ UNCHANGED <<dataset_paths, fs, pc, class_names, class_to_idx, si,
                   all_image_tasks, outcome,
                   results, X, y, trainCalls, model, outdir, featVars>>

\* list(all_classes) without sorted(): the set's own iteration order
UnsortedNames(S) == InsertionOrder(S)

\* class_names = sorted(list(all_classes))
SortedNames(S) == Sorted(S)

\* {name: i for i, name in enumerate(class_names)}
Enumerate(names) == {<<names[i], i - 1>> : i \in 1..Len(names)}

\* class_to_idx[name]
Lookup(dict, name) == (CHOOSE kv \in dict : kv[1] = name)[2]

\* lines 142-146, after the first loop
BuildVocabulary ==
    /\ pc = "vocab"
    /\ vi > Len(dataset_paths)
    /\ class_names' = SortedNames(all_classes)
    /\ class_to_idx' = Enumerate(SortedNames(all_classes))
    /\ pc' = "sample"
    /\ UNCHANGED <<dataset_paths, fs, vi, all_classes, si, all_image_tasks,
                   outcome, results, X, y,
                   trainCalls, model, outdir, featVars>>

(***************************************************************************)
(* prepare_dataset: the sampling pass (lines 148-171).                     *)
(***************************************************************************)
\* f.lower().endswith(('.jpg', '.jpeg', '.png'))
ImageSuffixes == {<<46, 106, 112, 103>>, <<46, 106, 112, 101, 103>>, <<46, 112, 110, 103>>}
IsImageFile(f) == \E suf \in ImageSuffixes : EndsWith(Lower(f), suf)

\* random.sample(population, k): k distinct elements, in any order
RandomSample(population, k) == Arrangements(Range(population), k)

\* lines 166-167: what image_files may be after the cap is applied
CapSample(image_files) ==
    IF Len(image_files) > SAMPLES_PER_CLASS
    THEN RandomSample(image_files, SAMPLES_PER_CLASS)
    ELSE {image_files}

\* lines 163-167 for a class directory of each size: every list image_files
\* may be, over the samples random.sample may draw
SampledLists == [n \in 0..MaxFiles |-> CapSample(SelectSeq(Listing(n), IsImageFile))]

\* lines 163-167 for one class directory
ImageFileLists(root, d) == SampledLists[fs.entry[<<root, d>>]]

\* lines 160-171 for one class directory: the tasks appended for it
DirTasks(root, d, image_files) ==
    [k \in 1..Len(image_files) |->
        [path |-> <<root, d, image_files[k]>>, idx |-> Lookup(class_to_idx, d)]]

RECURSIVE DirsTasks(_, _)
\* lines 160-171 over a list of class directories: every list of tasks the
\* loop may append, one sample per directory
DirsTasks(root, dirs) ==
    IF dirs = <<>> THEN {<<>>}
    ELSE {DirTasks(root, Head(dirs), image_files) \o rest :
            image_files \in ImageFileLists(root, Head(dirs)),
            rest \in DirsTasks(root, Tail(dirs))}

\* lines 156-171 for one root: every list of tasks one iteration may append
RootTasks(root) == DirsTasks(root, ClassDirs(root))

\* the sampling loop leaves at the first missing root instead of skipping it
SampleStopsAtMissing(root) == Len(dataset_paths) + 1

\* the index the sampling loop goes to after a missing root: `continue`
SampleAfterMissing(root) == si + 1

\* one iteration of the second loop
SampleRoot ==
    /\ pc = "sample"
    /\ si <= Len(dataset_paths)
    /\ LET dataset_path == dataset_paths[si]
       IN  IF ~Exists(dataset_path)
           THEN /\ si' = SampleAfterMissing(dataset_path)
                /\ UNCHANGED all_image_tasks
           ELSE /\ si' = si + 1
                /\ \E ts \in RootTasks(dataset_path) :
                      all_image_tasks' = all_image_tasks \o ts
    /\ UNCHANGED <<dataset_paths, fs, pc, vi, all_classes, class_names,
                   class_to_idx, outcome,
                   results, X, y, trainCalls, model, outdir, featVars>>

(***************************************************************************)
(* prepare_dataset: the extraction pass (lines 176-180).  joblib's pool    *)
(* hands the tasks out in order, each idle worker taking the next one; the *)
(* workers finish in any order; Parallel(...) returns when every task has  *)
(* come back.                                                              *)
(***************************************************************************)
Pending == [tag |-> "pending", of |-> <<>>]

\* Parallel(n_jobs=N_JOBS)(...) is called
StartExtraction ==
    /\ pc = "sample"
    /\ si > Len(dataset_paths)
    /\ pc' = "extract"
    /\ outcome' = [i \in 1..Len(all_image_tasks) |-> Pending]
    /\ UNCHANGED <<dataset_paths, fs, vi, all_classes, class_names,
                   class_to_idx, si, all_image_tasks, results, X, y,
                   trainCalls, model, outdir, featVars>>

\* the tasks the workers hold: the first NumWorkers that have not come back
InFlight ==
    {i \in 1..Len(all_image_tasks) :
        /\ outcome[i] = Pending
        /\ Cardinality({j \in 1..(i - 1) : outcome[j] = Pending}) < NumWorkers}

\* a worker's call extract_features_worker(img_path) returns (or raises, and
\* joblib re-raises the error in the caller)
FinishTask(i) ==
    /\ pc = "extract"
    /\ i \in InFlight
    /\ LET r == extract_features_worker(all_image_tasks[i].path)
       IN  IF r = Raised
           THEN /\ pc' = "prepare_raised"
                /\ UNCHANGED outcome
           ELSE /\ outcome' = [outcome EXCEPT ![i] = r]
                /\ pc' = pc
    /\ UNCHANGED <<dataset_paths, fs, vi, all_classes, class_names,
                   class_to_idx, si, all_image_tasks, results, X, y,
                   trainCalls, model, outdir, featVars>>

\* the list Parallel returns: one result per task, in the order of the tasks
ParallelResults == [i \in 1..Len(all_image_tasks) |-> outcome[i]]

\* a pool that returns once no task is left waiting, the last ones still
\* being in the workers' hands
QueueDrained == \A i \in 1..Len(all_image_tasks) : outcome[i] = Pending => i \in InFlight

\* Parallel.__call__ returns when every task has completed
AllCompleted == \A i \in 1..Len(all_image_tasks) : outcome[i] # Pending

\* line 178: Parallel(...) returns
JoinPool ==
    /\ pc = "extract"
    /\ AllCompleted
    /\ results' = ParallelResults
    /\ pc' = "merge"
    /\ UNCHANGED <<dataset_paths, fs, vi, all_classes, class_names,
                   class_to_idx, si, all_image_tasks, outcome, X, y,
                   trainCalls, model, outdir, featVars>>

(***************************************************************************)
(* prepare_dataset: the assembly (lines 182-198).                          *)
(***************************************************************************)
RECURSIVE KeepAllLabels(_, _, _)
\* a merge that appends the label of every task, failed or not
KeepAllLabels(res, tasks, i) ==
    IF i > Len(res) THEN [X |-> <<>>, y |-> <<>>]
    ELSE LET rest == KeepAllLabels(res, tasks, i + 1)
         IN  [X |-> IF res[i] # None THEN <<res[i]>> \o rest.X ELSE rest.X,
              y |-> <<tasks[i].idx>> \o rest.y]

RECURSIVE MergeFrom(_, _, _)
\* the loop of lines 186-189, from index i on
MergeFrom(res, tasks, i) ==
    IF i > Len(res) THEN [X |-> <<>>, y |-> <<>>]
    ELSE LET rest == MergeFrom(res, tasks, i + 1)
         IN  IF res[i] # None
             THEN [X |-> <<res[i]>> \o rest.X, y |-> <<tasks[i].idx>> \o rest.y]
             ELSE rest

\* lines 183-198
Merge ==
    /\ pc = "merge"
    /\ LET m == MergeFrom(results, all_image_tasks, 1)
       IN  /\ X' = m.X
           /\ y' = m.y
    /\ pc' = "prepared"
    /\ UNCHANGED <<dataset_paths, fs, vi, all_classes, class_names,
                   class_to_idx, si, all_image_tasks, outcome, results, trainCalls, model, outdir,
                   featVars>>

(***************************************************************************)
(* main, train_model, save_model (lines 200-305 and 445-476).              *)
(***************************************************************************)
Absent == [present |-> FALSE, vocab |-> <<>>]
Holding(v) == [present |-> TRUE, vocab |-> v]
EmptyDir == [model_pkl |-> Absent, labels_json |-> Absent, report_json |-> FALSE,
             confusion_png |-> FALSE, predict_py |-> FALSE]

\* SklearnPlantDiseaseTrainer(): os.makedirs(OUTPUT_DIR, exist_ok=True); then
\* main calls prepare_dataset()
TrainerInit ==
    /\ pc = "start"
    /\ pc' = "vocab"
    /\ UNCHANGED <<dataset_paths, fs, vi, all_classes, class_names,
                   class_to_idx, si, all_image_tasks, outcome, results, X, y, trainCalls, model,
                   outdir, featVars>>

\* line 459: main hands X, y, class_names to train_model, whatever they hold.
\* train_test_split raises ValueError on an empty X; the split (stratify), the
\* fit and the evaluation are the libraries' and may raise on other data too.
TrainModel ==
    /\ pc = "prepared"
    /\ trainCalls' = Append(trainCalls, [nX |-> Len(X), ny |-> Len(y), vocab |-> class_names])
    /\ IF Len(X) = 0
       THEN /\ pc' = "failed"
            /\ UNCHANGED model
       ELSE \E ok \in BOOLEAN :
               IF ok THEN /\ model' = Holding(class_names)
                          /\ pc' = "save_model"
               ELSE /\ pc' = "failed"
                    /\ UNCHANGED model
    /\ UNCHANGED <<dataset_paths, fs, vi, all_classes, class_names,
                   class_to_idx, si, all_image_tasks, outcome, results, X, y, outdir, featVars>>

\* line 280: joblib.dump(model, .../model.pkl); an OSError leaves save_model
SaveModelPkl ==
    /\ pc = "save_model"
    /\ \E ok \in BOOLEAN :
          IF ok THEN /\ outdir' = [outdir EXCEPT !.model_pkl = model]
                     /\ pc' = "save_labels"
          ELSE /\ pc' = "failed"
               /\ UNCHANGED outdir
    /\ UNCHANGED <<dataset_paths, fs, vi, all_classes, class_names,
                   class_to_idx, si, all_image_tasks, outcome, results, X, y, trainCalls, model,
                   featVars>>

\* lines 283-284: labels.json
SaveLabels ==
    /\ pc = "save_labels"
    /\ \E ok \in BOOLEAN :
          IF ok THEN /\ outdir' = [outdir EXCEPT !.labels_json = Holding(class_names)]
                     /\ pc' = "save_report"
          ELSE /\ pc' = "failed"
               /\ UNCHANGED outdir
    /\ UNCHANGED <<dataset_paths, fs, vi, all_classes, class_names,
                   class_to_idx, si, all_image_tasks, outcome, results, X, y, trainCalls, model,
                   featVars>>

\* lines 287-288: classification_report.json
SaveReport ==
    /\ pc = "save_report"
    /\ \E ok \in BOOLEAN :
          IF ok THEN /\ outdir' = [outdir EXCEPT !.report_json = TRUE]
                     /\ pc' = "save_confusion"
          ELSE /\ pc' = "failed"
               /\ UNCHANGED outdir
    /\ UNCHANGED <<dataset_paths, fs, vi, all_classes, class_names,
                   class_to_idx, si, all_image_tasks, outcome, results, X, y, trainCalls, model,
                   featVars>>

\* lines 291-299: confusion_matrix.png
SaveConfusion ==
    /\ pc = "save_confusion"
    /\ \E ok \in BOOLEAN :
          IF ok THEN /\ outdir' = [outdir EXCEPT !.confusion_png = TRUE]
                     /\ pc' = "save_predict"
          ELSE /\ pc' = "failed"
               /\ UNCHANGED outdir
    /\ UNCHANGED <<dataset_paths, fs, vi, all_classes, class_names,
                   class_to_idx, si, all_image_tasks, outcome, results, X, y, trainCalls, model,
                   featVars>>

\* line 302 and lines 307-443: predict.py; then main prints its summary
SavePredictScript ==
    /\ pc = "save_predict"
    /\ \E ok \in BOOLEAN :
          IF ok THEN /\ outdir' = [outdir EXCEPT !.predict_py = TRUE]
                     /\ pc' = "done"
          ELSE /\ pc' = "failed"
               /\ UNCHANGED outdir
    /\ UNCHANGED <<dataset_paths, fs, vi, all_classes, class_names,
                   class_to_idx, si, all_image_tasks, outcome, results, X, y, trainCalls, model,
                   featVars>>

(***************************************************************************)
(* The feature extractors: extract_features_worker (lines 28-115) and the  *)
(* extract_features of the generated predict.py (lines 325-400).           *)
(*                                                                         *)
(* An image file is a 2 x 2 grid of RGB pixels, or does not decode.        *)
(* img.resize((IMG_SIZE, IMG_SIZE)) resamples by nearest neighbour (the    *)
(* default filter of Image.resize up to Pillow 6); the resized array is    *)
(* held as the number of its pixels that copy each pixel of the file, and  *)
(* every numpy reduction over it is the weighted reduction over the file's *)
(* pixels.  Numbers are exact fractions <<numerator, denominator>> in      *)
(* lowest terms.  The vector holds the histogram, mean, min, max and ratio *)
(* segments of the 219 features, in the order the code concatenates them;  *)
(* the segments that need square roots or a median (std, median, HSV,      *)
(* edges, quadrants) are left out.                                         *)
(***************************************************************************)
\* line 23: IMG_SIZE = 128
IMG_SIZE == 128
\* line 323: the literal the template writes into predict.py
PREDICT_IMG_SIZE == 128

\* the values of IMG_SIZE a training run is configured with
ImgSizes == (1..MaxImgSize) \cup {IMG_SIZE}

\* pixels: green, brown, just brown, just not brown, yellow, black, white
Palette == {<<0, 255, 0>>, <<120, 100, 50>>, <<101, 51, 99>>,
            <<200, 200, 50>>, <<0, 0, 0>>, <<255, 255, 255>>}
Coords == <<<<0, 0>>, <<0, 1>>, <<1, 0>>, <<1, 1>>>>
SrcSide == Len(Coords) \div 2
Images ==
    {[ok |-> TRUE, px |-> f] : f \in [Range(Coords) -> Palette]}
        \cup {[ok |-> FALSE, px |-> <<>>]}

RECURSIVE GCD(_, _)
GCD(a, b) == IF b = 0 THEN a ELSE GCD(b, a % b)

\* the fraction n/d (d > 0, n >= 0) in lowest terms
Frac(n, d) == LET g == GCD(n, d) IN <<n \div g, d \div g>>
FracLeq(a, b) == a[1] * b[2] <= b[1] * a[2]

RECURSIVE SumDistinct(_, _)
SumDistinct(s, vals) ==
    IF vals = {} THEN 0
    ELSE LET v == CHOOSE x \in vals : TRUE
         IN  v * Cardinality({i \in 1..Len(s) : s[i] = v}) + SumDistinct(s, vals \ {v})

\* the sum of a sequence of integers: each distinct value times its count
SeqSum(s) == SumDistinct(s, Range(s))

RECURSIVE LCM(_)
\* the least common multiple of a set of positive integers
LCM(S) ==
    IF S = {} THEN 1
    ELSE LET d == CHOOSE x \in S : TRUE
             m == LCM(S \ {d})
         IN  (d \div GCD(d, m)) * m

\* the sum of a sequence of fractions, over their common denominator
FracSum(s) ==
    LET den == LCM({s[i][2] : i \in 1..Len(s)})
    IN  Frac(SeqSum([i \in 1..Len(s) |-> s[i][1] * (den \div s[i][2])]), den)

\* nearest neighbour: the source index output index i copies, resizing n to size
Nearest(i, size, n) == ((2 * i + 1) * n) \div (2 * size)

\* how many output indices copy source index a
Copies(a, size) == Cardinality({i \in 0..(size - 1) : Nearest(i, size, SrcSide) = a})

\* how many pixels of the resized array copy the file's pixel at c
Weight(c, size) == Copies(c[1], size) * Copies(c[2], size)

\* np.array(img.resize((size, size))): each pixel of the file with the number
\* of pixels of the array that copy it
Resize(px, size) ==
    [k \in 1..Len(Coords) |-> [pixel |-> px[Coords[k]], copies |-> Weight(Coords[k], size)]]

\* np.sum of f over the pixels of the array
PixelSum(arr, f(_)) == SeqSum([k \in 1..Len(arr) |-> arr[k].copies * f(arr[k].pixel)])

\* the values f takes on the pixels of the array
PixelValues(arr, f(_)) == {f(arr[k].pixel) : k \in {j \in 1..Len(arr) : arr[j].copies > 0}}

\* img_array.shape[0] * img_array.shape[1]
PixelCount(arr) == PixelSum(arr, LAMBDA q : 1)

\* np.histogram(channel, bins=64, range=(0, 256)): bin b counts b*4 .. b*4+3
Histogram(arr, ch) ==
    [b \in 1..64 |-> PixelSum(arr, LAMBDA q : IF q[ch] \div 4 = b - 1 THEN 1 ELSE 0)]

\* a normalisation that divides by IMG_SIZE, not by IMG_SIZE * IMG_SIZE
NormalizeBySide(count, size) == Frac(count, size)

\* lines 47-49 (344-346): hist / (IMG_SIZE * IMG_SIZE)
Normalize(count, size) == Frac(count, size * size)

\* lines 42-49 (339-346) for one channel
NormHistogram(arr, size, ch) ==
    LET hist == Histogram(arr, ch)
    IN  [b \in 1..64 |-> Normalize(hist[b], size)]

\* np.mean(img_array, axis=(0, 1))[ch]
ChannelMean(arr, ch) == Frac(PixelSum(arr, LAMBDA q : q[ch]), PixelCount(arr))

\* np.min / np.max (img_array, axis=(0, 1))[ch]
ChannelMin(arr, ch) ==
    LET vs == PixelValues(arr, LAMBDA q : q[ch])
    IN  <<CHOOSE v \in vs : \A w \in vs : v <= w, 1>>
ChannelMax(arr, ch) ==
    LET vs == PixelValues(arr, LAMBDA q : q[ch])
    IN  <<CHOOSE v \in vs : \A w \in vs : v >= w, 1>>

\* np.mean(img_array): over the three channels of every pixel
OverallMean(arr) ==
    Frac(PixelSum(arr, LAMBDA q : q[1] + q[2] + q[3]), 3 * PixelCount(arr))

\* line 81 (369): np.mean(G) / (np.mean(img_array) + 1e-6), kept as the pair
\* <<mean(G), mean(img_array)>> of its two operands
GreenRatio(arr) == <<ChannelMean(arr, 2), OverallMean(arr)>>

\* lines 85-86 (372-373)
IsBrown(q) == q[1] > 100 /\ q[2] > 50 /\ q[2] < 150 /\ q[3] < 100
BrownRatio(arr, size) ==
    Frac(PixelSum(arr, LAMBDA q : IF IsBrown(q) THEN 1 ELSE 0), size * size)

\* lines 89-90 (375-376)
IsYellow(q) == q[1] > 150 /\ q[2] > 150 /\ q[3] < 100
YellowRatio(arr, size) ==
    Frac(PixelSum(arr, LAMBDA q : IF IsYellow(q) THEN 1 ELSE 0), size * size)

\* lines 34-110 (331-395): resize, then np.concatenate in this order
FeatureVector(px, size) ==
    LET img_array == Resize(px, size)
    IN  NormHistogram(img_array, size, 1) \o NormHistogram(img_array, size, 2)
        \o NormHistogram(img_array, size, 3)
        \o [ch \in 1..3 |-> ChannelMean(img_array, ch)]
        \o [ch \in 1..3 |-> ChannelMin(img_array, ch)]
        \o [ch \in 1..3 |-> ChannelMax(img_array, ch)]
        \o <<GreenRatio(img_array), BrownRatio(img_array, size), YellowRatio(img_array, size)>>

\* the segments of a vector
HistOf(v, ch) == SubSeq(v, 64 * (ch - 1) + 1, 64 * ch)
GreenRatioOf(v) == v[202]
BrownRatioOf(v) == v[203]
YellowRatioOf(v) == v[204]

NotRun == [tag |-> "not run", v |-> <<>>]
NoFeatures == [tag |-> "None", v |-> <<>>]
Vector(v) == [tag |-> "features", v |-> v]

\* extract_features_worker on an image, with the module's IMG_SIZE
TrainExtractFeatures(img, size) ==
    IF img.ok THEN Vector(FeatureVector(img.px, size)) ELSE NoFeatures

\* predict.py's extract_features: features.reshape(1, -1) is one row
PredictExtractFeatures(img) ==
    IF img.ok THEN Vector(<<FeatureVector(img.px, PREDICT_IMG_SIZE)>>) ELSE NoFeatures

\* the training run extracts the features of the image
TrainExtract ==
    /\ fpc = "train"
    /\ trainFeat' = TrainExtractFeatures(image, imgSize)
    /\ fpc' = "predict"
    /\ UNCHANGED <<image, imgSize, predFeat, runVars>>

\* predict.py, written by that run, extracts the features of the same image
PredictExtract ==
    /\ fpc = "predict"
    /\ predFeat' = PredictExtractFeatures(image)
    /\ fpc' = "done"
    /\ UNCHANGED <<image, imgSize, trainFeat, runVars>>

(***************************************************************************)
(* The run of main().                                                      *)
(***************************************************************************)
\* the number of image files a file system holds
ImageTotal(entry) ==
    LET slots == [k \in 1..Len(DirOrder) * 2 |->
                    LET r == IF k <= Len(DirOrder) THEN "dataset" ELSE "archive"
                        d == DirOrder[((k - 1) % Len(DirOrder)) + 1]
                    IN  IF entry[<<r, d>>] > 0 THEN entry[<<r, d>>] ELSE 0]
    IN  SeqSum(slots)

\* the file systems of the model: a missing root has no entries
FileSystems ==
    {f \in [exists : SUBSET Roots, entry : [Roots \X Classes -> Entries]] :
        /\ \A r \in Roots \ f.exists : \A d \in Classes : f.entry[<<r, d>>] = NoEntry
        /\ ImageTotal(f.entry) <= MaxImages}

FeatIdle ==
    /\ fpc = "idle"
    /\ image = <<>>
    /\ imgSize = 0
    /\ trainFeat = <<>>
    /\ predFeat = <<>>

Init ==
    /\ dataset_paths \in Perms(Roots)
    /\ fs \in FileSystems
    /\ pc = "start"
    /\ vi = 1
    /\ all_classes = {}
    /\ class_names = <<>>
    /\ class_to_idx = {}
    /\ si = 1
    /\ all_image_tasks = <<>>
    /\ outcome = <<>>
    /\ results = <<>>
    /\ X = <<>>
    /\ y = <<>>
    /\ trainCalls = <<>>
    /\ model = Absent
    /\ outdir = EmptyDir
    /\ FeatIdle

Next ==
    \/ TrainerInit
    \/ VocabRoot
    \/ BuildVocabulary
    \/ SampleRoot
    \/ StartExtraction
    \/ \E i \in 1..Len(all_image_tasks) : FinishTask(i)
    \/ JoinPool
    \/ Merge
    \/ TrainModel
    \/ SaveModelPkl
    \/ SaveLabels
    \/ SaveReport
    \/ SaveConfusion
    \/ SavePredictScript

Spec == Init /\ [][Next]_vars

(***************************************************************************)
(* The two extractors on one image.                                        *)
(***************************************************************************)
RunIdle ==
    /\ dataset_paths = <<>>
    /\ fs = [exists |-> {}, entry |-> [rd \in Roots \X Classes |-> NoEntry]]
    /\ pc = "idle"
    /\ vi = 1
    /\ all_classes = {}
    /\ class_names = <<>>
    /\ class_to_idx = {}
    /\ si = 1
    /\ all_image_tasks = <<>>
    /\ outcome = <<>>
    /\ results = <<>>
    /\ X = <<>>
    /\ y = <<>>
    /\ trainCalls = <<>>
    /\ model = Absent
    /\ outdir = EmptyDir

InitFeat ==
    /\ RunIdle
    /\ fpc = "train"
    /\ image \in Images
    /\ imgSize \in ImgSizes
    /\ trainFeat = NotRun
    /\ predFeat = NotRun

NextFeat ==
    \/ TrainExtract
    \/ PredictExtract

SpecFeat == InitFeat /\ [][NextFeat]_vars

(***************************************************************************)
(* Properties.                                                             *)
(***************************************************************************)
\* positions of a run
AfterVocabulary == {"sample", "extract", "merge", "prepared", "save_model",
                    "save_labels", "save_report", "save_confusion",
                    "save_predict", "done", "failed"}
AfterSampling == AfterVocabulary \ {"sample"}
AfterJoin == AfterSampling \ {"extract"}
AfterMerge == AfterJoin \ {"merge"}

\* the roots of dataset_paths that exist, in the order of the list
ExistingRoots == SelectSeq(dataset_paths, Exists)

\* the names of the class directories of the existing roots
ExistingClasses == UNION {Range(ClassDirs(r)) : r \in Range(ExistingRoots)}

\* a list in strictly increasing order: sorted, and free of duplicates
StrictlySorted(names) ==
    \A i, j \in 1..Len(names) : i < j => StrLess(names[i], names[j])

\* what the call on the image at a path is to return
Expected(path) == IF Decodable(path) THEN Features(path) ELSE None

\* the tasks whose extraction succeeds, in the order of the tasks
Survivors == SelectSeq(all_image_tasks, LAMBDA t : Decodable(t.path))

\* C1: the arrays prepare_dataset returns are aligned: as many labels as
\* feature vectors, every label an index into class_names, and y[i] the
\* class index of the task whose extraction produced X[i]; a failed task
\* leaves neither a vector nor a label.
C1_AlignedDataset ==
    pc \in AfterMerge =>
        /\ Len(X) = Len(y)
        /\ Len(X) = Cardinality({k \in 1..Len(results) : results[k] # None})
        /\ \A i \in 1..Len(X) :
              /\ y[i] \in 0..(Len(class_names) - 1)
              /\ X[i].tag = "features"
              /\ class_names[y[i] + 1] = X[i].of[2]
              /\ \E k \in 1..Len(all_image_tasks) :
                    /\ all_image_tasks[k].path = X[i].of
                    /\ all_image_tasks[k].idx = y[i]
                    /\ results[k] = X[i]

\* C1 witness: a dataset of two classes was assembled after a failed
\* extraction was dropped.
C1_Witness ==
    /\ pc = "prepared"
    /\ Len(X) < Len(all_image_tasks)
    /\ \E i, j \in 1..Len(y) : y[i] # y[j]

\* C2: once the vocabulary pass is over (so before any task is collected)
\* class_names is the sorted, duplicate-free list of the class directories
\* of the existing roots, whatever the order of dataset_paths; class_to_idx
\* maps each name to its one position, and every task carries the index of
\* its class in that list.
C2_SortedVocabulary ==
    pc \in AfterVocabulary =>
        /\ StrictlySorted(class_names)
        /\ Range(class_names) = ExistingClasses
        /\ class_to_idx = {<<class_names[i], i - 1>> : i \in 1..Len(class_names)}
        /\ \A kv, kw \in class_to_idx : kv[1] = kw[1] => kv[2] = kw[2]
        /\ \A k \in 1..Len(all_image_tasks) :
              class_names[all_image_tasks[k].idx + 1] = all_image_tasks[k].path[2]

\* C2 witness: the first root listed holds only "healthy", the second holds
\* "healthy" and "blight" too, and the vocabulary was built.
C2_Witness ==
    /\ pc = "sample"
    /\ all_image_tasks = <<>>
    /\ fs.exists = Roots
    /\ Range(ClassDirs(dataset_paths[1])) = {Healthy}
    /\ Range(ClassDirs(dataset_paths[2])) = {Healthy, Blight}
    /\ class_names = <<Blight, Healthy>>

\* the image files of a class over all existing roots
ImagesOfClass(d) ==
    {<<r, f>> \in Range(ExistingRoots) \X Range(ImagePool \o <<FileNotes, FileD>>) :
        /\ d \in Range(ClassDirs(r))
        /\ f \in Range(ListClassDir(r, d))
        /\ IsImageFile(f)}

\* the tasks of a class
TasksOfClass(d) == {k \in 1..Len(all_image_tasks) : all_image_tasks[k].path[2] = d}

\* C3: for every class of the vocabulary, SAMPLES_PER_CLASS distinct files
\* become tasks when the class has more image files than that, and all of
\* its files otherwise, also for a class with a directory under two roots.
C3_PerClassCap ==
    pc \in AfterSampling =>
        \A d \in Range(class_names) :
            /\ \A k, l \in TasksOfClass(d) :
                  all_image_tasks[k].path = all_image_tasks[l].path => k = l
            /\ Cardinality(TasksOfClass(d)) =
                  IF Cardinality(ImagesOfClass(d)) > SAMPLES_PER_CLASS
                  THEN SAMPLES_PER_CLASS
                  ELSE Cardinality(ImagesOfClass(d))

\* C4: an image that does not decode makes its call return None; no
\* exception leaves prepare_dataset, every task comes back with its own
\* result, and the dataset holds exactly the tasks that succeeded.
C4_FailureIsolated ==
    /\ pc # "prepare_raised"
    /\ pc \in AfterJoin =>
          /\ Len(results) = Len(all_image_tasks)
          /\ \A k \in 1..Len(results) : results[k] = Expected(all_image_tasks[k].path)
    /\ pc \in AfterMerge =>
          /\ Len(X) = Len(all_image_tasks)
                        - Cardinality({k \in 1..Len(all_image_tasks) :
                                          ~Decodable(all_image_tasks[k].path)})
          /\ Range(X) = {Features(t.path) : t \in Range(Survivors)}

\* C4 witness: prepare_dataset returned a dataset although an extraction
\* failed before another task of the list succeeded.
C4_Witness ==
    /\ pc = "prepared"
    /\ \E k, l \in 1..Len(results) : k < l /\ results[k] = None /\ results[l] # None

\* C5: train_model is never invoked with empty arrays.
C5_NoTrainingOnEmpty ==
    \A k \in 1..Len(trainCalls) : trainCalls[k].nX > 0 /\ trainCalls[k].ny > 0

\* C6: model.pkl is in the output directory only together with a labels.json
\* that holds the vocabulary the model was trained against.
C6_ModelOnlyWithLabels ==
    outdir.model_pkl.present =>
        /\ outdir.labels_json.present
        /\ outdir.labels_json.vocab = outdir.model_pkl.vocab

\* a/b <= k for fractions a, b kept as GreenRatio keeps them: the ratio is
\* a / (b + 1e-6), so a <= k * (b + 10^-6), in integers
RatioLeq(g, k) ==
    LET a == g[1]
        b == g[2]
    IN  a[1] * b[2] - k * a[2] * b[1] <= (k * a[2] * b[2]) \div 1000000

InUnitInterval(f) == f[1] >= 0 /\ f[2] > 0 /\ f[1] <= f[2]

HistogramsBounded(v) ==
    \A ch \in 1..3 : FracLeq(FracSum(HistOf(v, ch)), <<1, 1>>)

\* C7 as stated: the three histograms sum to at most 1 and green_ratio,
\* brown_ratio and yellow_ratio all lie in [0, 1].
C7_AllRatiosInUnitInterval ==
    trainFeat.tag = "features" =>
        /\ HistogramsBounded(trainFeat.v)
        /\ GreenRatioOf(trainFeat.v)[1][1] >= 0
        /\ RatioLeq(GreenRatioOf(trainFeat.v), 1)
        /\ InUnitInterval(BrownRatioOf(trainFeat.v))
        /\ InUnitInterval(YellowRatioOf(trainFeat.v))

\* C7 amended: the three histograms sum to at most 1, brown_ratio and
\* yellow_ratio lie in [0, 1], and green_ratio lies in [0, 3].
C7_HistogramsAndRatiosBounded ==
    trainFeat.tag = "features" =>
        /\ HistogramsBounded(trainFeat.v)
        /\ GreenRatioOf(trainFeat.v)[1][1] >= 0
        /\ RatioLeq(GreenRatioOf(trainFeat.v), 3)
        /\ InUnitInterval(BrownRatioOf(trainFeat.v))
        /\ InUnitInterval(YellowRatioOf(trainFeat.v))

\* C7 witness: features were extracted, at a resolution of more than one
\* pixel, from an image with brown pixels whose green_ratio exceeds 1.
C7_Witness ==
    /\ trainFeat.tag = "features"
    /\ imgSize > 1
    /\ ~RatioLeq(GreenRatioOf(trainFeat.v), 1)
    /\ BrownRatioOf(trainFeat.v)[1] > 0

\* C8: for every IMG_SIZE the training run is configured with, predict.py's
\* extract_features fails on the images extract_features_worker fails on and
\* otherwise returns one row holding the same values in the same positions.
C8_TrainPredictParity ==
    fpc = "done" =>
        /\ trainFeat.tag = predFeat.tag
        /\ trainFeat.tag = "features" => predFeat.v = <<trainFeat.v>>

\* the tasks of a list that lie under a root, in the order of the list
TasksUnder(tasks, r) == SelectSeq(tasks, LAMBDA t : t.path[1] = r)

\* a task list the sampling pass may produce from a list of existing roots:
\* for each root of the list in turn, a task list of one scan of that root
ProducedFrom(tasks, paths) ==
    /\ tasks = Flatten([k \in 1..Len(paths) |-> TasksUnder(tasks, paths[k])])
    /\ \A k \in 1..Len(paths) : TasksUnder(tasks, paths[k]) \in RootTasks(paths[k])

\* C9: a missing root raises nothing and is skipped by both passes: the
\* vocabulary is that of the roots that exist, and the tasks are a task list
\* of the list of the existing roots alone.
C9_MissingRootSkipped ==
    /\ pc # "prepare_raised"
    /\ pc \in AfterVocabulary =>
          class_names = Sorted(UNION {Range(ClassDirs(r)) : r \in Range(ExistingRoots)})
    /\ pc \in AfterSampling => ProducedFrom(all_image_tasks, ExistingRoots)

\* C9 witness: the first root listed is missing, and the tasks of the root
\* after it were collected.
C9_Witness ==
    /\ pc = "extract"
    /\ ~Exists(dataset_paths[1])
    /\ Len(all_image_tasks) >= 2

\* C10: the list Parallel returns is read only when every task has come
\* back, results[i] is the outcome of task i, and X and y list the
\* successful tasks in the order of the tasks, whatever the order the
\* workers finished in.
C10_OrderPreserved ==
    /\ pc \in AfterJoin =>
          /\ \A k \in 1..Len(all_image_tasks) : outcome[k] # Pending
          /\ results = [k \in 1..Len(all_image_tasks) |-> Expected(all_image_tasks[k].path)]
    /\ pc \in AfterMerge =>
          /\ X = [j \in 1..Len(Survivors) |-> Features(Survivors[j].path)]
          /\ y = [j \in 1..Len(Survivors) |-> Survivors[j].idx]

\* C10 witness: a dataset was assembled from a task list in which a failed
\* task stands between two successful ones.
C10_Witness ==
    /\ pc = "prepared"
    /\ Len(X) >= 2
    /\ \E i, j, k \in 1..Len(results) :
          i < j /\ j < k /\ results[i] # None /\ results[j] = None /\ results[k] # None

====
